---------------------------- MODULE Spec2Model ----------------------------
(***************************************************************************)
(* Model of content/ch-demos/piday-code.ipynb: estimating pi with quantum   *)
(* phase estimation.  The notebook defines two circuit builders            *)
(* (qft_dagger, qpe_pre), an execution wrapper (run_job), the estimation    *)
(* driver (get_pi_estimate), a sweep over the qubit counts 2..12 and a      *)
(* plot cell.  The quantum library and its backends are the environment:    *)
(* a circuit is the ordered list of the operations appended to it, and a    *)
(* backend answers a submitted job with a counts table or with a failure.   *)
(*                                                                         *)
(* Floating-point values are modelled as exact rationals <<num, den>> in    *)
(* lowest terms; the rounding of a Python float to 53 bits is not modelled. *)
(***************************************************************************)
EXTENDS Integers, Naturals, Sequences, FiniteSets, TLC

VARIABLES
    pc,                \* control point of the notebook / of the current call
    nq_i,              \* sweep: index into nqs of the current loop iteration
    n_qubits,          \* argument of the current call
    circ,              \* the circuit under construction (get_pi_estimate's circ)
    saved,             \* image files written so far, in order of writing
    jobs,              \* every job handed to execute(), in order of submission
    result,            \* the finished job's result, until run_job has read it
    counts,            \* the counts table returned by run_job
    max_counts_result, \* get_pi_estimate's local of that name (the decoded int)
    theta,             \* get_pi_estimate's local theta
    ret,               \* value returned by the last get_pi_estimate call
    pi_estimates,      \* the sweep's result list
    stdout,            \* lines printed by the sweep loop
    fault,             \* the exception that ended the run, or "none"
    plot,              \* what the plot cell has drawn
    last,              \* the call that was made last, with the circuit before it
    calls              \* log of get_pi_estimate calls: argument, mode, result

vars == <<pc, nq_i, n_qubits, circ, saved, jobs, result, counts, max_counts_result,
          theta, ret, pi_estimates, stdout, fault, plot, last, calls>>

---------------------------------------------------------------------------
(* Bounds of the model.                                                    *)

\* largest qubit count with which a function is called on its own
MaxN == 8
\* number of builder calls made in a row on one circuit
MaxCalls == 2
\* qubit counts up to which the sweep's simulator may report any dominant
\* outcome; above it the sweep sees the ideal outcome or the all-zero one
MaxNoisyN == 2

---------------------------------------------------------------------------
(* Program constants.                                                      *)

\* nqs = list(range(2,12+1))
FirstNq == 2
LastNq == 12
\* if n_qubits < 10: draw
DrawBelow == 10
\* run_job(circ_, backend_, shots_=1000, optimization_level_=0)
DefaultShots == 1000
DefaultOptLevel == 0
\* run_job(circ, backend_=simulator, shots_=10000, optimization_level_=0)
CallShots == 10000
CallOptLevel == 0

---------------------------------------------------------------------------
(* Arithmetic helpers.                                                     *)

RECURSIVE Pow2(_)
Pow2(e) == IF e = 0 THEN 1 ELSE 2 * Pow2(e - 1)

RECURSIVE GCD(_, _)
GCD(a, b) == IF b = 0 THEN a ELSE GCD(b, a % b)

\* a float value, kept as the rational num/den in lowest terms, den > 0
Rat(num, den) == LET g == GCD(num, den) IN <<num \div g, den \div g>>

\* Python's true division of two non-negative numbers, x / y with y # 0
RatDiv(x, y) == Rat(x[1] * y[2], x[2] * y[1])
RatMul(x, y) == Rat(x[1] * y[1], x[2] * y[2])
RatInt(k) == <<k, 1>>

---------------------------------------------------------------------------
(* Circuits: the operations appended, in order.                            *)

\* QuantumCircuit(nq, nc)
QuantumCircuit(nq, nc) == [num_qubits |-> nq, num_clbits |-> nc, data |-> <<>>]

NoCircuit == QuantumCircuit(0, 0)

\* angles: <<"pi", s, d>> is s*pi/d, <<"rad", s, d>> is s/d radians
NoParam == <<"none", 0, 1>>

Op(name, param, qubits, clbits) ==
    [gate |-> name, param |-> param, qubits |-> qubits, clbits |-> clbits]

AppendOps(c, ops) == [c EXCEPT !.data = @ \o ops]

\* circ_.swap(a, b)
Swap(a, b) == Op("swap", NoParam, <<a, b>>, <<>>)
\* circ_.cu1(angle, control, target)
Cu1(angle, control, target) == Op("cu1", angle, <<control, target>>, <<>>)
\* circ_.h(j)
H(j) == Op("h", NoParam, <<j>>, <<>>)
\* circ_.x(j)
X(j) == Op("x", NoParam, <<j>>, <<>>)

\* circ.barrier(): one barrier over all the qubits of the circuit
Barrier(c) ==
    AppendOps(c, <<Op("barrier", NoParam, [i \in 1..c.num_qubits |-> i - 1], <<>>)>>)

\* variant: qubit i is measured into classical bit n-1-i
MeasureReversed(c, n) ==
    AppendOps(c, [i \in 1..n |-> Op("measure", NoParam, <<i - 1>>, <<n - i>>)])

\* circ.measure(range(n), range(n)): qubit i into classical bit i, i = 0..n-1
Measure(c, n) ==
    AppendOps(c, [i \in 1..n |-> Op("measure", NoParam, <<i - 1>>, <<i - 1>>)])

---------------------------------------------------------------------------
(* qft_dagger                                                              *)

\* variant: the swap loop runs over range(n_qubits)
QftSwapsAll(n) == [q \in 1..n |-> Swap(q - 1, n - (q - 1) - 1)]

\* variant: circ_.swap(qubit, n_qubits-qubit)
QftSwapsOffByOne(n) == [q \in 1..(n \div 2) |-> Swap(q - 1, n - (q - 1))]

\* for qubit in range(int(n_qubits/2)): circ_.swap(qubit, n_qubits-qubit-1)
QftSwaps(n) == [q \in 1..(n \div 2) |-> Swap(q - 1, n - (q - 1) - 1)]

\* variant: the inner loop runs over range(j+1)
QftRotationsInclusive(j) ==
    [i \in 1..(j + 1) |-> Cu1(<<"pi", -1, Pow2(j - (i - 1))>>, i - 1, j)]

\* for m in range(j): circ_.cu1(-np.pi/float(2**(j-m)), m, j)
QftRotations(j) == [i \in 1..j |-> Cu1(<<"pi", -1, Pow2(j - (i - 1))>>, i - 1, j)]

\* variant: circ_.h(j) before the rotations onto j
QftStageHFirst(j) == <<H(j)>> \o QftRotations(j)

\* the body of the loop over j: the rotations onto j, then circ_.h(j)
QftStage(j) == QftRotations(j) \o <<H(j)>>

\* for j in range(0, n_qubits): ... ; the stages j..n-1 in ascending order
RECURSIVE QftStages(_, _)
QftStages(j, n) == IF j >= n THEN <<>> ELSE QftStage(j) \o QftStages(j + 1, n)

qft_dagger(c, n) == AppendOps(c, QftSwaps(n) \o QftStages(0, n))

---------------------------------------------------------------------------
(* qpe_pre                                                                 *)

\* circ_.h(range(n_qubits)): one h per qubit 0..n-1, in order
QpeHadamards(n) == [i \in 1..n |-> H(i - 1)]

\* variant: one rotation per qubit instead of 2**(n_qubits-1-x)
QpeRepeatOnce(x, n) == <<Cu1(<<"rad", 1, 1>>, n - 1 - x, n)>>

\* for _ in range(2**(n_qubits-1-x)): circ_.cu1(1, n_qubits-1-x, n_qubits)
QpeRepeat(x, n) ==
    [i \in 1..Pow2(n - 1 - x) |-> Cu1(<<"rad", 1, 1>>, n - 1 - x, n)]

\* variant: for x in range(n_qubits), x = 0 up to n-1
RECURSIVE QpeRotationsForward(_, _)
QpeRotationsForward(x, n) ==
    IF x < 0 THEN <<>> ELSE QpeRotationsForward(x - 1, n) \o QpeRepeat(x, n)

\* for x in reversed(range(n_qubits)): x = n-1 down to 0
RECURSIVE QpeRotations(_, _)
QpeRotations(x, n) ==
    IF x < 0 THEN <<>> ELSE QpeRepeat(x, n) \o QpeRotations(x - 1, n)

qpe_pre(c, n) ==
    AppendOps(c, QpeHadamards(n) \o <<X(n)>> \o QpeRotations(n - 1, n))

---------------------------------------------------------------------------
(* The backend and run_job.                                                *)

\* the value of keyword argument name in the call's arguments, or the default
\* given in the def line; args is a set of <<name, value>> pairs
Kw(args, name, default) ==
    IF \E p \in args : p[1] = name
    THEN (CHOOSE p \in args : p[1] = name)[2]
    ELSE default

\* variant: the shot count of the call is not handed on
run_job_execute_fixed(c, backend, args) ==
    [num_qubits |-> c.num_qubits, num_clbits |-> c.num_clbits,
     size |-> Len(c.data), backend |-> backend,
     shots |-> CallShots,
     optimization_level |-> Kw(args, "optimization_level_", DefaultOptLevel),
     status |-> "running"]

\* def run_job(circ_, backend_, shots_=1000, optimization_level_=0):
\*     job = execute(circ_, backend=backend_, shots=shots_,
\*                   optimization_level=optimization_level_)
run_job_execute(c, backend, args) ==
    [num_qubits |-> c.num_qubits, num_clbits |-> c.num_clbits,
     size |-> Len(c.data), backend |-> backend,
     shots |-> Kw(args, "shots_", DefaultShots),
     optimization_level |-> Kw(args, "optimization_level_", DefaultOptLevel),
     status |-> "running"]

\* the arguments get_pi_estimate passes: shots_=10000, optimization_level_=0
GpeRunJobArgs == {<<"shots_", CallShots>>, <<"optimization_level_", CallOptLevel>>}

\* outcome k reported over n classical bits: n characters, most significant first
RECURSIVE ToBits(_, _)
ToBits(k, n) ==
    IF n = 0 THEN <<>>
    ELSE Append(ToBits(k \div 2, n - 1), IF k % 2 = 1 THEN "1" ELSE "0")

\* a counts table is a dict in insertion order: a sequence of entries
Entry(key, val) == [key |-> key, val |-> val]

\* ways the shots fall on a dominant and one other outcome: a tie and two
\* clear majorities
TableShapes(a, b, shots) ==
    IF shots % 4 = 0
    THEN { <<Entry(a, shots \div 2), Entry(b, shots \div 2)>>,
           <<Entry(a, 3 * (shots \div 4)), Entry(b, shots \div 4)>>,
           <<Entry(a, shots \div 4), Entry(b, 3 * (shots \div 4))>> }
    ELSE { <<Entry(a, shots - 1), Entry(b, 1)>>,
           <<Entry(a, 1), Entry(b, shots - 1)>> }

\* tables an arbitrary backend may return over n classical bits: any first
\* outcome, alone or with one of its neighbours (mod 2^n)
AnyTables(n, shots) ==
    LET m == Pow2(n)
    IN  { <<Entry(ToBits(a, n), shots)>> : a \in 0..(m - 1) }
        \cup UNION { UNION { TableShapes(ToBits(a, n), ToBits(b, n), shots)
                             : b \in {(a + 1) % m, (a + m - 1) % m} \ {a} }
                     : a \in 0..(m - 1) }

\* pi = np.pi lies strictly between the fractions PiLo and PiHi
PiLo == <<333, 106>>
PiHi == <<355, 113>>

\* the outcome an ideal phase estimation of the phase 1/(2 pi) favours: the
\* integer k nearest 2^n/(2 pi), i.e. (2k-1) pi < 2^n < (2k+1) pi
Ideal(n) ==
    CHOOSE k \in 0..(Pow2(n) - 1) :
        /\ (2 * k - 1) * PiHi[1] < Pow2(n) * PiHi[2]
        /\ Pow2(n) * PiLo[2] < (2 * k + 1) * PiLo[1]

\* outcomes the sweep's simulator reports
SweepOutcomes(n) ==
    IF n <= MaxNoisyN THEN 0..(Pow2(n) - 1) ELSE {0, Ideal(n)}

\* tables the sweep's simulator may return: one or two of its outcomes
SweepTables(n, shots) ==
    { <<Entry(ToBits(a, n), shots)>> : a \in SweepOutcomes(n) }
    \cup UNION { TableShapes(ToBits(ab[1], n), ToBits(ab[2], n), shots)
                 : ab \in { p \in SweepOutcomes(n) \X SweepOutcomes(n) : p[1] # p[2] } }

\* the job submitted last
CurJob == jobs[Len(jobs)]

\* variant: the job is handed to the backend twice
SubmitTwice(j) == jobs' = jobs \o <<j, j>>

\* job = execute(...): the job is handed to the backend
Submit(j) == jobs' = Append(jobs, j)

\* a job is with the backend
Running == pc = "job_monitor" /\ CurJob.status = "running"

\* the backend finishes the running job with the counts table t
Finish(t) ==
    /\ jobs' = [jobs EXCEPT ![Len(jobs)].status = "done"]
    /\ result' = t
    /\ UNCHANGED <<pc, nq_i, n_qubits, circ, saved, counts,
                   max_counts_result, theta, ret, pi_estimates, stdout, fault,
                   plot, last, calls>>

\* any backend, any dominant outcome
BackendDone ==
    /\ Running
    /\ \E t \in AnyTables(CurJob.num_clbits, CurJob.shots) : Finish(t)

\* the sweep's simulator
SimulatorDone ==
    /\ Running
    /\ \E t \in SweepTables(CurJob.num_clbits, CurJob.shots) : Finish(t)

\* the backend fails the running job
BackendError ==
    /\ Running
    /\ jobs' = [jobs EXCEPT ![Len(jobs)].status = "error"]
    /\ UNCHANGED <<pc, nq_i, n_qubits, circ, saved, result, counts,
                   max_counts_result, theta, ret, pi_estimates, stdout, fault,
                   plot, last, calls>>

\* job_monitor(job) has seen the job end; return job.result().get_counts(circ_)
RunJobReturn ==
    /\ pc = "job_monitor"
    /\ CurJob.status = "done"
    /\ counts' = result
    /\ result' = <<>>
    /\ pc' = IF last.fn = "get_pi_estimate" THEN "gpe_max" ELSE "idle_done"
    /\ UNCHANGED <<nq_i, n_qubits, circ, saved, jobs, max_counts_result,
                   theta, ret, pi_estimates, stdout, fault, plot, last, calls>>

\* variant: a failed job is submitted again
RunJobRetry ==
    /\ pc = "job_monitor"
    /\ CurJob.status = "error"
    /\ jobs' = Append(jobs, [CurJob EXCEPT !.status = "running"])
    /\ UNCHANGED <<pc, nq_i, n_qubits, circ, saved, result, counts,
                   max_counts_result, theta, ret, pi_estimates, stdout, fault,
                   plot, last, calls>>

\* job.result() of a failed job raises; nothing in the notebook catches it
RunJobRaise ==
    /\ pc = "job_monitor"
    /\ CurJob.status = "error"
    /\ fault' = "JobError"
    /\ pc' = "fault"
    /\ UNCHANGED <<nq_i, n_qubits, circ, saved, jobs, result, counts,
                   max_counts_result, theta, ret, pi_estimates, stdout, plot,
                   last, calls>>

---------------------------------------------------------------------------
(* get_pi_estimate                                                         *)

\* max(counts, key=counts.get): the first key, in the table's order, whose
\* count no other key exceeds
PyMax(t) ==
    LET i == CHOOSE i \in 1..Len(t) :
                 /\ \A j \in 1..Len(t) : t[j].val <= t[i].val
                 /\ \A j \in 1..(i - 1) : t[j].val < t[i].val
    IN  t[i].key

\* variant: reads the string least significant bit first
RECURSIVE IntBase2Reversed(_)
IntBase2Reversed(s) ==
    IF Len(s) = 0 THEN 0
    ELSE 2 * IntBase2Reversed(Tail(s)) + (IF Head(s) = "1" THEN 1 ELSE 0)

\* int(s, 2) for a non-empty string of binary digits
RECURSIVE IntBase2(_)
IntBase2(s) ==
    IF Len(s) = 0 THEN 0
    ELSE 2 * IntBase2(SubSeq(s, 1, Len(s) - 1)) + (IF s[Len(s)] = "1" THEN 1 ELSE 0)

\* variant: divides by 2**(n_qubits-1)
ThetaHalfRange(k, n) == RatDiv(RatInt(k), RatInt(Pow2(n - 1)))

\* theta = max_counts_result/2**n_qubits
Theta(k, n) == RatDiv(RatInt(k), RatInt(Pow2(n)))

\* variant: 1./theta
PiOfThetaNoTwo(th) == RatDiv(RatInt(1), th)

\* 1./(2*theta), for theta # 0
PiOfTheta(th) == RatDiv(RatInt(1), RatMul(RatInt(2), th))

\* str(n) for n >= 0: the decimal digits of n, most significant first
RECURSIVE Str(_)
Str(n) ==
    LET digit == <<"0", "1", "2", "3", "4", "5", "6", "7", "8", "9">>[(n % 10) + 1]
    IN  IF n < 10 THEN <<digit>> ELSE Append(Str(n \div 10), digit)

\* str(n_qubits)+'_qubit_circuit.png'
FileName(n) == Str(n) \o <<"_qubit_circuit.png">>

\* circ = QuantumCircuit(n_qubits + 1, n_qubits)
GpeCreate ==
    /\ pc = "gpe_entry"
    /\ circ' = QuantumCircuit(n_qubits + 1, n_qubits)
    /\ pc' = "gpe_qpe_pre"
    /\ UNCHANGED <<nq_i, n_qubits, saved, jobs, result, counts,
                   max_counts_result, theta, ret, pi_estimates, stdout, fault,
                   plot, last, calls>>

\* qpe_pre(circ, n_qubits)
GpeQpePre ==
    /\ pc = "gpe_qpe_pre"
    /\ circ' = qpe_pre(circ, n_qubits)
    /\ pc' = "gpe_barrier1"
    /\ UNCHANGED <<nq_i, n_qubits, saved, jobs, result, counts,
                   max_counts_result, theta, ret, pi_estimates, stdout, fault,
                   plot, last, calls>>

\* circ.barrier()
GpeBarrier1 ==
    /\ pc = "gpe_barrier1"
    /\ circ' = Barrier(circ)
    /\ pc' = "gpe_qft_dagger"
    /\ UNCHANGED <<nq_i, n_qubits, saved, jobs, result, counts,
                   max_counts_result, theta, ret, pi_estimates, stdout, fault,
                   plot, last, calls>>

\* qft_dagger(circ, n_qubits)
GpeQftDagger ==
    /\ pc = "gpe_qft_dagger"
    /\ circ' = qft_dagger(circ, n_qubits)
    /\ pc' = "gpe_barrier2"
    /\ UNCHANGED <<nq_i, n_qubits, saved, jobs, result, counts,
                   max_counts_result, theta, ret, pi_estimates, stdout, fault,
                   plot, last, calls>>

\* circ.barrier()
GpeBarrier2 ==
    /\ pc = "gpe_barrier2"
    /\ circ' = Barrier(circ)
    /\ pc' = "gpe_measure"
    /\ UNCHANGED <<nq_i, n_qubits, saved, jobs, result, counts,
                   max_counts_result, theta, ret, pi_estimates, stdout, fault,
                   plot, last, calls>>

\* circ.measure(range(n_qubits), range(n_qubits))
GpeMeasure ==
    /\ pc = "gpe_measure"
    /\ circ' = Measure(circ, n_qubits)
    /\ pc' = "gpe_draw"
    /\ UNCHANGED <<nq_i, n_qubits, saved, jobs, result, counts,
                   max_counts_result, theta, ret, pi_estimates, stdout, fault,
                   plot, last, calls>>

\* variant: the diagram is not written
GpeDrawSkip ==
    /\ pc = "gpe_draw"
    /\ pc' = "gpe_run_job"
    /\ UNCHANGED <<nq_i, n_qubits, circ, saved, jobs, result, counts,
                   max_counts_result, theta, ret, pi_estimates, stdout, fault,
                   plot, last, calls>>

\* variant: if n_qubits <= 10
GpeDrawInclusive ==
    /\ pc = "gpe_draw"
    /\ saved' = IF n_qubits <= DrawBelow
                THEN Append(saved, [name |-> FileName(n_qubits), size |-> Len(circ.data)])
                ELSE saved
    /\ pc' = "gpe_run_job"
    /\ UNCHANGED <<nq_i, n_qubits, circ, jobs, result, counts,
                   max_counts_result, theta, ret, pi_estimates, stdout, fault,
                   plot, last, calls>>

\* if n_qubits < 10: circ.draw(output='mpl').savefig(...)
GpeDraw ==
    /\ pc = "gpe_draw"
    /\ saved' = IF n_qubits < DrawBelow
                THEN Append(saved, [name |-> FileName(n_qubits), size |-> Len(circ.data)])
                ELSE saved
    /\ pc' = "gpe_run_job"
    /\ UNCHANGED <<nq_i, n_qubits, circ, jobs, result, counts,
                   max_counts_result, theta, ret, pi_estimates, stdout, fault,
                   plot, last, calls>>

\* counts = run_job(circ, backend_=simulator, shots_=10000, optimization_level_=0)
GpeRunJob ==
    /\ pc = "gpe_run_job"
    /\ Submit(run_job_execute(circ, "simulator", GpeRunJobArgs))
    /\ pc' = "job_monitor"
    /\ UNCHANGED <<result, nq_i, n_qubits, circ, saved, counts,
                   max_counts_result, theta, ret, pi_estimates, stdout, fault,
                   plot, last, calls>>

\* max_counts_result = max(counts, key=counts.get)
\* max_counts_result = int(max_counts_result, 2)
GpeMax ==
    /\ pc = "gpe_max"
    /\ max_counts_result' = IntBase2(PyMax(counts))
    /\ pc' = "gpe_theta"
    /\ UNCHANGED <<nq_i, n_qubits, circ, saved, jobs, result, counts, theta, ret,
                   pi_estimates, stdout, fault, plot, last, calls>>

\* theta = max_counts_result/2**n_qubits
GpeTheta ==
    /\ pc = "gpe_theta"
    /\ theta' = Theta(max_counts_result, n_qubits)
    /\ pc' = "gpe_return"
    /\ UNCHANGED <<nq_i, n_qubits, circ, saved, jobs, result, counts,
                   max_counts_result, ret, pi_estimates, stdout, fault, plot,
                   last, calls>>

\* variant: a zero theta is answered with infinity instead of a fault
GpeReturnInf ==
    /\ pc = "gpe_return"
    /\ ret' = IF theta[1] = 0 THEN <<1, 0>> ELSE PiOfTheta(theta)
    /\ calls' = [calls EXCEPT ![Len(calls)] =
                     [n |-> n_qubits, k |-> max_counts_result,
                      ret |-> IF theta[1] = 0 THEN <<1, 0>> ELSE PiOfTheta(theta),
                      done |-> TRUE]]
    /\ pc' = "returned"
    /\ circ' = NoCircuit
    /\ counts' = <<>>
    /\ max_counts_result' = 0
    /\ theta' = <<0, 1>>
    /\ UNCHANGED <<nq_i, n_qubits, saved, jobs, result, pi_estimates, stdout,
                   fault, plot, last>>

\* return (1./(2*theta)): a float division, ZeroDivisionError when 2*theta is 0.
\* On return the frame's locals are gone; a fault keeps them in the traceback.
GpeReturn ==
    /\ pc = "gpe_return"
    /\ IF RatMul(RatInt(2), theta)[1] = 0
       THEN /\ fault' = "ZeroDivisionError"
            /\ pc' = "fault"
            /\ UNCHANGED <<ret, calls, circ, counts, max_counts_result, theta>>
       ELSE /\ ret' = PiOfTheta(theta)
            /\ calls' = [calls EXCEPT ![Len(calls)] =
                             [n |-> n_qubits, k |-> max_counts_result,
                              ret |-> PiOfTheta(theta), done |-> TRUE]]
            /\ pc' = "returned"
            /\ circ' = NoCircuit
            /\ counts' = <<>>
            /\ max_counts_result' = 0
            /\ theta' = <<0, 1>>
            /\ UNCHANGED fault
    /\ UNCHANGED <<nq_i, n_qubits, saved, jobs, result, pi_estimates, stdout,
                   plot, last>>

GetPiEstimateStep ==
    \/ GpeCreate \/ GpeQpePre \/ GpeBarrier1 \/ GpeQftDagger \/ GpeBarrier2
    \/ GpeMeasure \/ GpeDraw \/ GpeRunJob \/ RunJobReturn \/ RunJobRaise
    \/ GpeMax \/ GpeTheta \/ GpeReturn

---------------------------------------------------------------------------
(* The sweep and the plot.                                                 *)

\* variant: range(2,12), without the + 1
nqsExclusive == [i \in 1..(LastNq - FirstNq) |-> FirstNq + i - 1]

\* nqs = list(range(2,12+1))
nqs == [i \in 1..(LastNq + 1 - FirstNq) |-> FirstNq + i - 1]

\* a call of get_pi_estimate(n) that has not returned
Called(n) == [n |-> n, k |-> 0, ret |-> <<0, 1>>, done |-> FALSE]

NoCall == [fn |-> "none", count |-> 0, before |-> <<>>, args |-> {}]
NoPlot == [drawn |-> FALSE, x |-> <<>>, ref |-> <<>>, est |-> <<>>]

\* nqs = ...; pi_estimates = []; the for loop starts
SweepStart ==
    /\ pc = "start"
    /\ pi_estimates' = <<>>
    /\ nq_i' = 1
    /\ pc' = "loop"
    /\ UNCHANGED <<n_qubits, circ, saved, jobs, result, counts,
                   max_counts_result, theta, ret, stdout, fault, plot, last,
                   calls>>

\* for nq in nqs: thisnq_pi_estimate = get_pi_estimate(nq)   (the call)
LoopCall ==
    /\ pc = "loop"
    /\ nq_i <= Len(nqs)
    /\ n_qubits' = nqs[nq_i]
    /\ last' = [fn |-> "get_pi_estimate", count |-> 1, before |-> <<>>, args |-> {}]
    /\ calls' = Append(calls, Called(nqs[nq_i]))
    /\ pc' = "gpe_entry"
    /\ UNCHANGED <<nq_i, circ, saved, jobs, result, counts, max_counts_result,
                   theta, ret, pi_estimates, stdout, fault, plot>>

\* variant: pi_estimates.insert(0, thisnq_pi_estimate)
LoopInsertFront ==
    /\ pc = "returned"
    /\ pi_estimates' = <<ret>> \o pi_estimates
    /\ pc' = "loop_print"
    /\ UNCHANGED <<nq_i, n_qubits, circ, saved, jobs, result, counts,
                   max_counts_result, theta, ret, stdout, fault, plot, last,
                   calls>>

\* pi_estimates.append(thisnq_pi_estimate)
LoopAppend ==
    /\ pc = "returned"
    /\ pi_estimates' = Append(pi_estimates, ret)
    /\ pc' = "loop_print"
    /\ UNCHANGED <<nq_i, n_qubits, circ, saved, jobs, result, counts,
                   max_counts_result, theta, ret, stdout, fault, plot, last,
                   calls>>

\* print(f"{nq} qubits, pi ~ {thisnq_pi_estimate}"); next iteration
LoopPrint ==
    /\ pc = "loop_print"
    /\ stdout' = Append(stdout, [nq |-> nqs[nq_i], est |-> ret])
    /\ nq_i' = nq_i + 1
    /\ pc' = "loop"
    /\ UNCHANGED <<n_qubits, circ, saved, jobs, result, counts,
                   max_counts_result, theta, ret, pi_estimates, fault, plot,
                   last, calls>>

\* variant: the loop ends one element early
LoopExitEarly ==
    /\ pc = "loop"
    /\ nq_i >= Len(nqs)
    /\ pc' = "plot"
    /\ UNCHANGED <<nq_i, n_qubits, circ, saved, jobs, result, counts,
                   max_counts_result, theta, ret, pi_estimates, stdout, fault,
                   plot, last, calls>>

\* the loop has consumed nqs; the next cell runs
LoopExit ==
    /\ pc = "loop"
    /\ nq_i > Len(nqs)
    /\ pc' = "plot"
    /\ UNCHANGED <<nq_i, n_qubits, circ, saved, jobs, result, counts,
                   max_counts_result, theta, ret, pi_estimates, stdout, fault,
                   plot, last, calls>>

\* plotter.plot(nqs, [pi]*len(nqs), '--r'); plotter.plot(nqs, pi_estimates, ...)
Plot ==
    /\ pc = "plot"
    /\ plot' = [drawn |-> TRUE, x |-> nqs,
                ref |-> [i \in 1..Len(nqs) |-> "pi"], est |-> pi_estimates]
    /\ pc' = "done"
    /\ UNCHANGED <<nq_i, n_qubits, circ, saved, jobs, result, counts,
                   max_counts_result, theta, ret, pi_estimates, stdout, fault,
                   last, calls>>

\* the notebook after its definition cells have run
Init ==
    /\ pc = "start"
    /\ nq_i = 0
    /\ n_qubits = 0
    /\ circ = NoCircuit
    /\ saved = <<>>
    /\ jobs = <<>>
    /\ result = <<>>
    /\ counts = <<>>
    /\ max_counts_result = 0
    /\ theta = <<0, 1>>
    /\ ret = <<0, 1>>
    /\ pi_estimates = <<>>
    /\ stdout = <<>>
    /\ fault = "none"
    /\ plot = NoPlot
    /\ last = NoCall
    /\ calls = <<>>

Next ==
    \/ SweepStart \/ LoopCall \/ GetPiEstimateStep \/ SimulatorDone
    \/ BackendError \/ LoopAppend \/ LoopPrint \/ LoopExit \/ Plot

Spec == Init /\ [][Next]_vars

\* the steps the interpreter takes on its own: the cells run top to bottom and
\* every statement that is enabled is executed; the backend is not part of it
Program ==
    \/ SweepStart \/ LoopCall \/ GetPiEstimateStep \/ LoopAppend \/ LoopPrint
    \/ LoopExit \/ Plot

\* the sweep with an interpreter that does not stop between statements
SpecLive == Init /\ [][Next]_vars /\ WF_vars(Program)

---------------------------------------------------------------------------
(* The functions called on their own, on inputs drawn from bounded sets.   *)

\* qft_dagger(circ, n_qubits) on the circuit built so far
UnitQftDagger ==
    /\ pc = "idle"
    /\ last.count < MaxCalls
    /\ circ' = qft_dagger(circ, n_qubits)
    /\ last' = [fn |-> "qft_dagger", count |-> last.count + 1,
                before |-> circ.data, args |-> {}]
    /\ UNCHANGED <<pc, nq_i, n_qubits, saved, jobs, result, counts,
                   max_counts_result, theta, ret, pi_estimates, stdout, fault,
                   plot, calls>>

\* qpe_pre(circ, n_qubits) on the circuit built so far
UnitQpePre ==
    /\ pc = "idle"
    /\ last.count < MaxCalls
    /\ circ' = qpe_pre(circ, n_qubits)
    /\ last' = [fn |-> "qpe_pre", count |-> last.count + 1,
                before |-> circ.data, args |-> {}]
    /\ UNCHANGED <<pc, nq_i, n_qubits, saved, jobs, result, counts,
                   max_counts_result, theta, ret, pi_estimates, stdout, fault,
                   plot, calls>>

\* keyword arguments a caller of run_job may pass or leave out
UnitRunJobArgs ==
    { s \cup o : s \in {{}, {<<"shots_", CallShots>>}},
                 o \in {{}, {<<"optimization_level_", 1>>}} }

\* run_job(circ, simulator, **args)
UnitRunJob ==
    /\ pc = "idle"
    /\ last.count = 0
    /\ \E args \in UnitRunJobArgs :
          /\ Submit(run_job_execute(circ, "simulator", args))
          /\ last' = [fn |-> "run_job", count |-> 1, before |-> circ.data,
                      args |-> args]
    /\ pc' = "job_monitor"
    /\ UNCHANGED <<result, nq_i, n_qubits, circ, saved, counts,
                   max_counts_result, theta, ret, pi_estimates, stdout, fault,
                   plot, calls>>

\* get_pi_estimate(n_qubits), for n_qubits >= 1
UnitGetPiEstimate ==
    /\ pc = "idle"
    /\ last.count = 0
    /\ n_qubits >= 1
    /\ last' = [fn |-> "get_pi_estimate", count |-> 1, before |-> <<>>, args |-> {}]
    /\ calls' = Append(calls, Called(n_qubits))
    /\ pc' = "gpe_entry"
    /\ UNCHANGED <<nq_i, n_qubits, circ, saved, jobs, result, counts,
                   max_counts_result, theta, ret, pi_estimates, stdout, fault,
                   plot>>

InitUnit ==
    /\ pc = "idle"
    /\ nq_i = 0
    /\ n_qubits \in 0..MaxN
    /\ circ = QuantumCircuit(n_qubits + 1, n_qubits)
    /\ saved = <<>>
    /\ jobs = <<>>
    /\ result = <<>>
    /\ counts = <<>>
    /\ max_counts_result = 0
    /\ theta = <<0, 1>>
    /\ ret = <<0, 1>>
    /\ pi_estimates = <<>>
    /\ stdout = <<>>
    /\ fault = "none"
    /\ plot = NoPlot
    /\ last = NoCall
    /\ calls = <<>>

NextUnit ==
    \/ UnitQftDagger \/ UnitQpePre \/ UnitRunJob \/ UnitGetPiEstimate
    \/ GetPiEstimateStep \/ BackendDone \/ BackendError

SpecUnit == InitUnit /\ [][NextUnit]_vars

---------------------------------------------------------------------------
(* Properties.                                                             *)

\* the operations the last call appended to the circuit
Added == SubSeq(circ.data, Len(last.before) + 1, Len(circ.data))

\* the last call left the operations that were there in place
Appended == SubSeq(circ.data, 1, Len(last.before)) = last.before

CountGate(ops, g) == Cardinality({i \in 1..Len(ops) : ops[i].gate = g})

RECURSIVE SumPow2(_, _)
\* sum over x in lo..hi of 2^x
SumPow2(lo, hi) == IF lo > hi THEN 0 ELSE Pow2(lo) + SumPow2(lo + 1, hi)

\* the unsigned binary value of a bitstring, most significant bit first
RECURSIVE BinaryValue(_)
BinaryValue(s) ==
    IF s = <<>> THEN 0
    ELSE (IF Head(s) = "1" THEN Pow2(Len(s) - 1) ELSE 0) + BinaryValue(Tail(s))

LastCall == calls[Len(calls)]

\* C1: for every n >= 0, qft_dagger(circ, n) appends exactly n(n-1)/2 cu1
\* operations, n h operations and floor(n/2) swaps, and nothing else.
C1_QftDaggerCounts ==
    last.fn = "qft_dagger" =>
        /\ Appended
        /\ CountGate(Added, "cu1") = (n_qubits * (n_qubits - 1)) \div 2
        /\ CountGate(Added, "h") = n_qubits
        /\ CountGate(Added, "swap") = n_qubits \div 2
        /\ Len(Added) = (n_qubits * (n_qubits - 1)) \div 2 + n_qubits
                        + n_qubits \div 2

C1_Witness ==
    /\ last.fn = "qft_dagger"
    /\ n_qubits = 5
    /\ Len(last.before) > 0
    /\ CountGate(Added, "cu1") = 10

\* C2: for every n >= 1, qpe_pre(circ, n) appends exactly 2^n - 1 cu1
\* operations, the sum over x in 0..n-1 of 2^(n-1-x).
C2_QpePreRotations ==
    (last.fn = "qpe_pre" /\ n_qubits >= 1) =>
        /\ Appended
        /\ CountGate(Added, "cu1") = Pow2(n_qubits) - 1
        /\ CountGate(Added, "cu1") = SumPow2(0, n_qubits - 1)
        /\ \A x \in 0..(n_qubits - 1) :
              Cardinality({i \in 1..Len(Added) :
                              /\ Added[i].gate = "cu1"
                              /\ Added[i].qubits[1] = n_qubits - 1 - x})
                  = Pow2(n_qubits - 1 - x)

C2_Witness ==
    /\ last.fn = "qpe_pre"
    /\ n_qubits = 4
    /\ Len(last.before) > 0
    /\ CountGate(Added, "cu1") = 15

\* C3: for every n and every n-bit dominant outcome the decoded integer k
\* satisfies 0 <= k <= 2^n - 1, and theta = k / 2^n lies in [0, 1).
C3_ThetaRange ==
    /\ pc \in {"gpe_theta", "gpe_return"} =>
          /\ \A i \in 1..Len(counts) : Len(counts[i].key) = n_qubits
          /\ 0 <= max_counts_result
          /\ max_counts_result <= Pow2(n_qubits) - 1
    /\ pc = "gpe_return" =>
          /\ theta[2] > 0
          /\ theta[1] * Pow2(n_qubits) = max_counts_result * theta[2]
          /\ 0 <= theta[1]
          /\ theta[1] < theta[2]

C3_Witness ==
    /\ pc = "gpe_return"
    /\ n_qubits = 3
    /\ max_counts_result = 7
    /\ theta = <<7, 8>>

\* C4: when the dominant outcome decodes to 0, theta is 0 and 1/(2*theta)
\* faults with a division by zero that nothing catches: no estimate is
\* returned, and nothing runs after the fault.
C4_ZeroModeFaults ==
    /\ [][(pc = "gpe_return" /\ max_counts_result = 0) =>
             /\ theta[1] = 0
             /\ pc' = "fault"
             /\ fault' = "ZeroDivisionError"
             /\ UNCHANGED <<ret, calls, pi_estimates, stdout, plot>>]_vars
    /\ [][pc = "fault" => UNCHANGED vars]_vars

C4_Witness ==
    /\ pc = "fault"
    /\ fault = "ZeroDivisionError"
    /\ n_qubits = 3
    /\ max_counts_result = 0
    /\ ~LastCall.done
    /\ Len(pi_estimates) = 1

\* C5: get_pi_estimate selects a bitstring of the counts table whose count is
\* at least the count of every other bitstring, decodes it as an unsigned
\* binary integer k, and for k >= 1 returns 1/(2*(k/2^n)) = 2^(n-1)/k.
C5_ModeDecodeEstimate ==
    [][pc = "gpe_return" =>
          \E i \in 1..Len(counts) :
              /\ \A j \in 1..Len(counts) : counts[j].val <= counts[i].val
              /\ max_counts_result = BinaryValue(counts[i].key)
              /\ theta[1] * Pow2(n_qubits) = max_counts_result * theta[2]
              /\ max_counts_result >= 1 =>
                    /\ pc' = "returned"
                    /\ ret'[2] > 0
                    /\ ret'[1] * max_counts_result = ret'[2] * Pow2(n_qubits - 1)
                    /\ ret' = RatDiv(<<1, 1>>, Rat(2 * max_counts_result,
                                                   Pow2(n_qubits)))]_vars

C5_Witness ==
    /\ pc = "returned"
    /\ n_qubits = 3
    /\ LastCall.done
    /\ LastCall.k = 5
    /\ ret = <<4, 5>>

\* the first d decimals of rem/den, for 0 <= rem < den
RECURSIVE Decimals(_, _, _)
Decimals(rem, den, d) ==
    IF d = 0 THEN <<>>
    ELSE <<(rem * 10) \div den>> \o Decimals((rem * 10) % den, den, d - 1)

\* a value written out: its integer part and its first 14 decimals
Decimal(r) == <<r[1] \div r[2], Decimals(r[1] % r[2], r[2], 14)>>

\* the estimates the notebook's recorded run printed for 2, 8 and 10..12
\* qubits: 2.0, 3.1219512195121952 and 3.1411042944785277
Sample2 == <<2, <<0, 0, 0, 0, 0, 0, 0, 0, 0, 0, 0, 0, 0, 0>>>>
Sample8 == <<3, <<1, 2, 1, 9, 5, 1, 2, 1, 9, 5, 1, 2, 1, 9>>>>
Sample10 == <<3, <<1, 4, 1, 1, 0, 4, 2, 9, 4, 4, 7, 8, 5, 2>>>>

\* key is the one outcome of table t with the most counts
Dominant(t, key) ==
    \E i \in 1..Len(t) :
        /\ t[i].key = key
        /\ \A j \in 1..Len(t) : j # i => t[j].val < t[i].val

\* C6: for n = 2, when the dominant outcome is the ideal one (the 2-bit
\* integer nearest 2^2/(2 pi)), it decodes to 1, theta is 1/4 and
\* get_pi_estimate returns exactly 2.0.
C6_TwoQubitEstimate ==
    [][(pc = "gpe_return" /\ n_qubits = 2
            /\ Dominant(counts, ToBits(Ideal(2), 2))) =>
          /\ max_counts_result = 1
          /\ theta = <<1, 4>>
          /\ pc' = "returned"
          /\ ret' = <<2, 1>>
          /\ Decimal(ret') = Sample2]_vars

C6_Witness ==
    /\ pc = "returned"
    /\ n_qubits = 2
    /\ LastCall.done
    /\ LastCall.k = Ideal(2)
    /\ ret = <<2, 1>>

\* C7: for n = 8 the ideal dominant outcome (the integer nearest 2^8/(2 pi))
\* is 41 and decodes to the estimate 128/41, about 3.1219512195121952; no
\* other integer in 1..255 gives an estimate that matches that value.
C7_EightQubitEstimate ==
    [][(pc = "gpe_return" /\ n_qubits = 8 /\ max_counts_result >= 1) =>
          /\ pc' = "returned"
          /\ Dominant(counts, ToBits(Ideal(8), 8)) =>
                /\ max_counts_result = 41
                /\ ret' = <<128, 41>>
                /\ Decimal(ret') = Sample8
          /\ Decimal(ret') = Sample8 => max_counts_result = 41]_vars

C7_Witness ==
    /\ pc = "returned"
    /\ n_qubits = 8
    /\ LastCall.done
    /\ LastCall.k = Ideal(8)
    /\ Decimal(ret) = Sample8

\* pi lies strictly between PiFix[1]/PiFix[3] and PiFix[2]/PiFix[3]
PiFix == <<314159, 314160, 100000>>

\* bounds, in units of 1/PiFix[3], on the distance of an estimate from pi
FixFloor(est) == (est[1] * PiFix[3]) \div est[2]
DistLo(est) ==
    LET f == FixFloor(est)
    IN  IF f >= PiFix[2] THEN f - PiFix[2]
        ELSE IF f + 1 <= PiFix[1] THEN PiFix[1] - (f + 1) ELSE 0
DistHi(est) ==
    LET f == FixFloor(est)
    IN  IF f >= PiFix[2] THEN f + 1 - PiFix[1]
        ELSE IF f + 1 <= PiFix[1] THEN PiFix[2] - f ELSE 1

\* the estimate b is no farther from pi than the estimate a
NoFarther(a, b) == a = b \/ DistHi(b) <= DistLo(a)

\* every call so far saw the ideal dominant outcome
AllIdeal == \A i \in 1..Len(calls) : calls[i].done => calls[i].k = Ideal(calls[i].n)

\* C8: with the ideal dominant outcome k_n for n = 2..12 the estimates
\* 2^(n-1)/k_n trend toward pi: the phase k_n/2^n is within 1/2^n of 1/(2 pi)
\* and the distance of the estimate from pi never grows from n to n+1; not
\* strictly: the estimates for n = 10, 11, 12 are equal (3.1411042944785277).
C8_Convergence ==
    (pc = "done" /\ AllIdeal) =>
        /\ Len(pi_estimates) = Len(nqs)
        /\ \A i \in 1..Len(pi_estimates) :
              LET n == nqs[i]
                  k == calls[i].k
              IN  /\ pi_estimates[i] = Rat(Pow2(n - 1), k)
                  /\ 2 * (k - 1) * PiHi[1] <= Pow2(n) * PiHi[2]
                  /\ Pow2(n) * PiLo[2] <= 2 * (k + 1) * PiLo[1]
        /\ \A i \in 1..(Len(pi_estimates) - 1) :
              NoFarther(pi_estimates[i], pi_estimates[i + 1])
        /\ \A i \in 1..Len(pi_estimates) :
              nqs[i] \in 10..12 =>
                  /\ pi_estimates[i] = pi_estimates[Len(pi_estimates)]
                  /\ Decimal(pi_estimates[i]) = Sample10

C8_Witness ==
    /\ pc = "done"
    /\ AllIdeal
    /\ Len(pi_estimates) = 11
    /\ pi_estimates[9] = <<512, 163>>
    /\ pi_estimates[11] = <<512, 163>>

\* the keyword argument name is absent from the last run_job call
Omitted(name) == ~ \E p \in last.args : p[1] = name

\* C9 as stated: run_job, called without an explicit shot count or
\* optimization level, submits with the default shot count 10000 and the
\* default optimization level 0.
C9_DefaultsAsStated ==
    (last.fn = "run_job" /\ jobs # <<>>) =>
        /\ Omitted("shots_") => CurJob.shots = 10000
        /\ Omitted("optimization_level_") => CurJob.optimization_level = 0

\* C9, amended: run_job, called without an explicit shot count or
\* optimization level, submits with the default shot count 1000 and the
\* default optimization level 0, and hands on the values it is given;
\* get_pi_estimate always passes 10000 shots and optimization level 0.
C9_Defaults ==
    /\ (last.fn = "run_job" /\ jobs # <<>>) =>
          /\ Omitted("shots_") => CurJob.shots = 1000
          /\ Omitted("optimization_level_") => CurJob.optimization_level = 0
          /\ \A p \in last.args :
                /\ p[1] = "shots_" => CurJob.shots = p[2]
                /\ p[1] = "optimization_level_" => CurJob.optimization_level = p[2]
    /\ last.fn = "get_pi_estimate" =>
          \A i \in 1..Len(jobs) :
              jobs[i].shots = 10000 /\ jobs[i].optimization_level = 0

C9_Witness ==
    /\ last.fn = "run_job"
    /\ last.args = {}
    /\ jobs # <<>>
    /\ CurJob.shots = 1000
    /\ CurJob.optimization_level = 0

\* C10: the sweep calls get_pi_estimate once for each qubit count 2..12 in
\* ascending order; each estimate is appended and then printed before the
\* next qubit count is started; when all calls succeed pi_estimates has 11
\* entries, the i-th (from 0) being the estimate for qubit count i+2.
C10_SweepOrder ==
    /\ Len(calls) <= 11
    /\ \A i \in 1..Len(calls) : calls[i].n = i + 1
    /\ Len(stdout) <= Len(pi_estimates)
    /\ Len(pi_estimates) <= Len(stdout) + 1
    /\ Len(pi_estimates) <= Len(calls)
    /\ Len(calls) <= Len(stdout) + 1
    /\ \A i \in 1..Len(pi_estimates) :
          calls[i].done /\ pi_estimates[i] = calls[i].ret
    /\ \A i \in 1..Len(stdout) :
          stdout[i] = [nq |-> i + 1, est |-> pi_estimates[i]]
    /\ pc \in {"plot", "done"} =>
          /\ Len(calls) = 11
          /\ Len(pi_estimates) = 11
          /\ Len(stdout) = 11

C10_Witness ==
    /\ pc = "done"
    /\ Len(pi_estimates) = 11
    /\ pi_estimates[1] = <<2, 1>>
    /\ pi_estimates[7] = <<128, 41>>
    /\ stdout[11] = [nq |-> 12, est |-> <<512, 163>>]

\* the jobs that are with the backend
Outstanding == {i \in 1..Len(jobs) : jobs[i].status = "running"}

\* C11: backend submissions are strictly sequential: at most one job is
\* outstanding at any time, and the job for qubit count n+1 is submitted only
\* after the job for n has completed and run_job has returned its counts.
C11_SequentialJobs ==
    /\ Cardinality(Outstanding) <= 1
    /\ Len(jobs) <= Len(calls)
    /\ \A i \in 1..Len(jobs) : jobs[i].num_qubits = calls[i].n + 1
    /\ \A i \in 1..(Len(jobs) - 1) :
          /\ jobs[i].status = "done"
          /\ calls[i].done
    /\ Outstanding # {} => result = <<>>
    /\ result # <<>> => (pc = "job_monitor" /\ CurJob.status = "done")

C11_Witness ==
    /\ Len(jobs) = 3
    /\ CurJob.status = "running"
    /\ CurJob.num_qubits = 5
    /\ jobs[2].status = "done"

\* the exception of a failed job is on its way or has ended the run
JobFailed == jobs # <<>> /\ CurJob.status = "error"

\* C12: a backend failure in the iteration for qubit count n is never retried
\* and aborts the sweep: the failed circuit is submitted exactly once, no
\* circuit for a larger qubit count is built or submitted, and the fault
\* leaves run_job, get_pi_estimate and the loop unhandled.
C12_FailureAborts ==
    /\ [](JobFailed =>
            /\ pc \in {"job_monitor", "fault"}
            /\ Len(jobs) = n_qubits - 1
            /\ Len(calls) = n_qubits - 1
            /\ Cardinality({i \in 1..Len(jobs) :
                               jobs[i].num_qubits = n_qubits + 1}) = 1
            /\ \A i \in 1..Len(jobs) : jobs[i].num_qubits <= n_qubits + 1
            /\ circ.num_qubits = n_qubits + 1
            /\ ~LastCall.done
            /\ Len(pi_estimates) = n_qubits - 2
            /\ ~plot.drawn
            /\ (fault = "JobError") = (pc = "fault"))
    /\ [][JobFailed =>
             \/ /\ pc = "job_monitor"
                /\ pc' = "fault"
                /\ fault' = "JobError"
                /\ UNCHANGED <<jobs, circ, calls, ret, pi_estimates, stdout,
                               plot, saved>>
             \/ UNCHANGED vars]_vars

C12_Witness ==
    /\ pc = "fault"
    /\ fault = "JobError"
    /\ n_qubits = 4
    /\ Len(jobs) = 3
    /\ CurJob.status = "error"
    /\ Len(pi_estimates) = 2

\* the names of the image files written
SavedNames == {saved[i].name : i \in 1..Len(saved)}

\* C13: over a complete sweep an image is written for exactly the qubit
\* counts 2..9 (eight files) and for none of 10, 11, 12; each file is named
\* "<n>_qubit_circuit.png", so no image overwrites another.
C13_Images ==
    /\ \A i, j \in 1..Len(saved) : i # j => saved[i].name # saved[j].name
    /\ \A i \in 1..Len(saved) :
          /\ i + 1 < 10
          /\ saved[i].name = <<<<"2", "3", "4", "5", "6", "7", "8", "9">>[i],
                               "_qubit_circuit.png">>
    /\ pc = "done" =>
          /\ Len(saved) = 8
          /\ Cardinality(SavedNames) = 8
          /\ \A n \in 10..12 : FileName(n) \notin SavedNames
          /\ <<"1", "0", "_qubit_circuit.png">> \notin SavedNames

C13_Witness ==
    /\ pc = "done"
    /\ Len(saved) = 8
    /\ saved[8].name = <<"9", "_qubit_circuit.png">>
    /\ Len(jobs) = 11

\* get_pi_estimate has appended the last operation to its circuit
Complete ==
    /\ last.fn = "get_pi_estimate"
    /\ pc \in {"gpe_draw", "gpe_run_job", "job_monitor", "gpe_max", "gpe_theta",
               "gpe_return", "fault"}

\* the operations at positions lo..hi of the circuit
Part(lo, hi) == SubSeq(circ.data, lo, hi)

IsBarrier(o) == o.gate = "barrier"

\* C14: for every n, get_pi_estimate builds a circuit with n+1 qubits and n
\* classical bits and appends, in this order, all of qpe_pre, a barrier, all of
\* qft_dagger, a barrier, then the measurements; exactly qubits 0..n-1 are
\* measured, qubit i into classical bit i, and qubit n is never measured.
C14_CircuitLayout ==
    LET n  == n_qubits
        c0 == QuantumCircuit(n + 1, n)
        P  == qpe_pre(c0, n).data
        Q  == qft_dagger(c0, n).data
        lp == Len(P)
        lq == Len(Q)
        d  == circ.data
        building == last.fn = "get_pi_estimate"
    IN  /\ (building /\ pc = "gpe_qpe_pre") => (circ = c0)
        /\ (building /\ pc = "gpe_barrier1") => (d = P)
        /\ (building /\ pc = "gpe_qft_dagger") =>
              /\ Len(d) = lp + 1
              /\ Part(1, lp) = P
              /\ IsBarrier(d[lp + 1])
        /\ (building /\ pc = "gpe_barrier2") =>
              /\ Len(d) = lp + 1 + lq
              /\ Part(1, lp) = P
              /\ IsBarrier(d[lp + 1])
              /\ Part(lp + 2, lp + 1 + lq) = Q
        /\ (building /\ pc = "gpe_measure") =>
              /\ Len(d) = lp + lq + 2
              /\ Part(lp + 2, lp + 1 + lq) = Q
              /\ IsBarrier(d[lp + lq + 2])
        /\ Complete =>
              /\ circ.num_qubits = n + 1
              /\ circ.num_clbits = n
              /\ Len(d) = lp + lq + 2 + n
              /\ Part(1, lp) = P
              /\ IsBarrier(d[lp + 1])
              /\ Part(lp + 2, lp + 1 + lq) = Q
              /\ IsBarrier(d[lp + lq + 2])
              /\ \A i \in 1..n :
                    d[lp + lq + 2 + i] = Op("measure", NoParam, <<i - 1>>, <<i - 1>>)
              /\ CountGate(d, "barrier") = 2
              /\ CountGate(d, "measure") = n
              /\ \A i \in 1..Len(d) :
                    d[i].gate = "measure" =>
                       /\ d[i].qubits[1] \in 0..(n - 1)
                       /\ d[i].clbits = d[i].qubits

C14_Witness ==
    /\ Complete
    /\ pc = "gpe_run_job"
    /\ n_qubits = 3
    /\ Len(circ.data) = 23
    /\ circ.data[23] = Op("measure", NoParam, <<2>>, <<2>>)

\* the position before the first operation of stage j among the operations
\* qft_dagger appends for n qubits
StageBase(j, n) == n \div 2 + (j * (j + 1)) \div 2

\* C15: within qft_dagger every swap precedes every rotation; then for
\* j = 0..n-1 in ascending order come the rotations cu1(-pi/2^(j-m), m, j) for
\* exactly m = 0..j-1 (exponent in 1..n-1), immediately followed by h(j); so
\* h(j) comes after every rotation targeting j and before every rotation that
\* j controls.
C15_QftDaggerOrder ==
    last.fn = "qft_dagger" =>
        LET n == n_qubits
            a == Added
        IN  /\ Len(a) = StageBase(n, n)
            /\ \A i \in 1..(n \div 2) : a[i].gate = "swap"
            /\ \A i, k \in 1..Len(a) :
                  (a[i].gate = "swap" /\ a[k].gate \in {"cu1", "h"}) => i < k
            /\ \A j \in 0..(n - 1) :
                  /\ \A m \in 0..(j - 1) :
                        a[StageBase(j, n) + m + 1]
                           = Cu1(<<"pi", -1, Pow2(j - m)>>, m, j)
                  /\ a[StageBase(j, n) + j + 1] = H(j)
            /\ \A i \in 1..Len(a) :
                  a[i].gate = "cu1" =>
                     /\ a[i].qubits[1] < a[i].qubits[2]
                     /\ \E e \in 1..(n - 1) : a[i].param = <<"pi", -1, Pow2(e)>>
            /\ \A i, k \in 1..Len(a) :
                  (a[i].gate = "cu1" /\ a[k].gate = "h") =>
                     /\ a[i].qubits[2] = a[k].qubits[1] => i < k
                     /\ a[i].qubits[1] = a[k].qubits[1] => k < i

C15_Witness ==
    /\ last.fn = "qft_dagger"
    /\ n_qubits = 4
    /\ Len(Added) = 12
    /\ Added[6] = Cu1(<<"pi", -1, 4>>, 0, 2)
    /\ Added[7] = Cu1(<<"pi", -1, 2>>, 1, 2)
    /\ Added[8] = H(2)

IsSwap(o) == o.gate = "swap"

\* the swaps among the operations the last call appended, in order
SwapStage == SelectSeq(Added, IsSwap)

\* order[p + 1] is the qubit at position p; each swap exchanges two positions
RECURSIVE ApplySwaps(_, _)
ApplySwaps(order, sw) ==
    IF sw = <<>> THEN order
    ELSE LET a == Head(sw).qubits[1] + 1
             b == Head(sw).qubits[2] + 1
         IN  ApplySwaps([order EXCEPT ![a] = order[b], ![b] = order[a]], Tail(sw))

\* C16: the swaps of qft_dagger reverse the order of the n estimation qubits:
\* they are exactly swap(q, n-1-q) for q = 0..floor(n/2)-1, every qubit takes
\* part in at most one swap, the middle qubit is untouched when n is odd, the
\* composed permutation maps position q to n-1-q, and applying the stage
\* twice restores the original order.
C16_SwapsReverse ==
    last.fn = "qft_dagger" =>
        LET n == n_qubits
            sw == SwapStage
            id == [p \in 1..n |-> p - 1]
            touched(q) == {i \in 1..Len(sw) :
                              q = sw[i].qubits[1] \/ q = sw[i].qubits[2]}
        IN  /\ sw = [i \in 1..(n \div 2) |-> Swap(i - 1, n - 1 - (i - 1))]
            /\ \A q \in 0..n : Cardinality(touched(q)) <= 1
            /\ n % 2 = 1 => touched((n - 1) \div 2) = {}
            /\ ApplySwaps(id, sw) = [p \in 1..n |-> n - 1 - (p - 1)]
            /\ ApplySwaps(ApplySwaps(id, sw), sw) = id

C16_Witness ==
    /\ last.fn = "qft_dagger"
    /\ n_qubits = 5
    /\ SwapStage = <<Swap(0, 4), Swap(1, 3)>>
    /\ ApplySwaps(<<0, 1, 2, 3, 4>>, SwapStage) = <<4, 3, 2, 1, 0>>

\* C17: qpe_pre first applies h to each of the qubits 0..n-1 and x to qubit n,
\* and only then the rotations; qubit q controls exactly 2^q rotations
\* cu1(1, q, n), all of unit angle and all targeting qubit n, emitted in
\* ascending order of q.
C17_QpePreOrder ==
    last.fn = "qpe_pre" =>
        LET n == n_qubits
            a == Added
        IN  /\ Len(a) = n + Pow2(n)
            /\ \A i \in 1..n : a[i] = H(i - 1)
            /\ a[n + 1] = X(n)
            /\ \A q \in 0..(n - 1) :
                  /\ \A p \in Pow2(q)..(Pow2(q + 1) - 1) :
                        a[n + 1 + p] = Cu1(<<"rad", 1, 1>>, q, n)
                  /\ Cardinality({i \in 1..Len(a) :
                                     a[i].gate = "cu1" /\ a[i].qubits[1] = q})
                        = Pow2(q)
            /\ \A i \in (n + 2)..Len(a) :
                  /\ a[i].gate = "cu1"
                  /\ a[i].param = <<"rad", 1, 1>>
                  /\ a[i].qubits[2] = n
            /\ \A i, k \in (n + 2)..Len(a) :
                  i < k => a[i].qubits[1] <= a[k].qubits[1]

C17_Witness ==
    /\ last.fn = "qpe_pre"
    /\ n_qubits = 3
    /\ Len(Added) = 11
    /\ Added[5] = Cu1(<<"rad", 1, 1>>, 0, 3)
    /\ Added[6] = Cu1(<<"rad", 1, 1>>, 1, 3)
    /\ Added[8] = Cu1(<<"rad", 1, 1>>, 2, 3)

\* operation o acts on qubit q
Touches(o, q) == \E i \in 1..Len(o.qubits) : o.qubits[i] = q

\* the positions of the two barriers of a complete circuit
BarrierAt == {i \in 1..Len(circ.data) : IsBarrier(circ.data[i])}

\* C18: in the circuit built by get_pi_estimate for any n, every gate operand
\* is a qubit index in 0..n and the two operands of every two-qubit gate
\* differ; qft_dagger never acts on qubit n, which is touched only by the
\* single x and as the target of the rotations of qpe_pre.
C18_Operands ==
    /\ Complete =>
          LET n == n_qubits
              d == circ.data
              gates == {i \in 1..Len(d) : d[i].gate \in {"h", "x", "cu1", "swap"}}
              b1 == CHOOSE i \in BarrierAt : \A k \in BarrierAt : i <= k
              b2 == CHOOSE i \in BarrierAt : \A k \in BarrierAt : i >= k
          IN  /\ \A i \in 1..Len(d) :
                    \A k \in 1..Len(d[i].qubits) : d[i].qubits[k] \in 0..n
              /\ \A i \in gates :
                    Len(d[i].qubits) = 2 => d[i].qubits[1] # d[i].qubits[2]
              /\ Cardinality(BarrierAt) = 2
              /\ \A i \in (b1 + 1)..(b2 - 1) : ~Touches(d[i], n)
              /\ \A i \in gates :
                    Touches(d[i], n) =>
                       /\ i < b1
                       /\ \/ d[i] = X(n)
                          \/ /\ d[i].gate = "cu1"
                             /\ d[i].param = <<"rad", 1, 1>>
                             /\ d[i].qubits[2] = n
              /\ Cardinality({i \in gates : d[i] = X(n)}) = 1
              /\ CountGate(d, "x") = 1
    /\ last.fn = "qft_dagger" =>
          \A i \in 1..Len(Added) :
             /\ ~Touches(Added[i], n_qubits)
             /\ \A k \in 1..Len(Added[i].qubits) :
                   Added[i].qubits[k] \in 0..(n_qubits - 1)
             /\ Len(Added[i].qubits) = 2 =>
                   Added[i].qubits[1] # Added[i].qubits[2]

C18_Witness ==
    /\ Complete
    /\ n_qubits = 4
    /\ pc = "gpe_max"
    /\ \E i \in 1..Len(circ.data) : circ.data[i] = Swap(0, 3)
    /\ \E i \in 1..Len(circ.data) : circ.data[i] = Cu1(<<"rad", 1, 1>>, 3, 4)

\* the steps of get_pi_estimate after the last append to the circuit
AfterBuild ==
    {"gpe_draw", "gpe_run_job", "job_monitor", "gpe_max", "gpe_theta",
     "gpe_return", "fault"}

\* an image of the circuit for n qubits, of the given size, has been written
Drawn(n, size) ==
    \E k \in 1..Len(saved) : saved[k] = [name |-> FileName(n), size |-> size]

\* C19: the circuit is complete before anything else happens to it and the
\* diagram is written before submission: no operation is appended after the
\* circuit is drawn or submitted, each qubit count gets a fresh circuit, and
\* when the iteration for n faults (backend failure or zero mode) the image for
\* n (if n < 10) exists, pi_estimates holds exactly the estimates for 2..n-1 in
\* order, and nothing is appended, printed or plotted for n or a later count.
C19_BuildDrawSubmit ==
    /\ [][(pc \in AfterBuild) =>
             \/ circ' = circ
             \/ pc = "gpe_return" /\ pc' = "returned" /\ circ' = NoCircuit]_vars
    /\ [][pc = "gpe_entry" =>
             /\ circ = NoCircuit
             /\ circ' = QuantumCircuit(n_qubits + 1, n_qubits)
             /\ circ'.data = <<>>]_vars
    /\ [][Len(jobs') > Len(jobs) =>
             /\ saved' = saved
             /\ circ' = circ
             /\ n_qubits < DrawBelow => Drawn(n_qubits, Len(circ.data))
             /\ jobs' = Append(jobs, jobs'[Len(jobs')])
             /\ jobs'[Len(jobs')].size = Len(circ.data)]_vars
    /\ [](\A i \in 1..Len(jobs) :
             jobs[i].num_qubits - 1 < DrawBelow =>
                Drawn(jobs[i].num_qubits - 1, jobs[i].size))
    /\ [](pc = "fault" =>
             /\ fault \in {"JobError", "ZeroDivisionError"}
             /\ n_qubits < DrawBelow => Drawn(n_qubits, Len(circ.data))
             /\ Len(pi_estimates) = n_qubits - FirstNq
             /\ Len(stdout) = n_qubits - FirstNq
             /\ \A i \in 1..Len(pi_estimates) :
                   /\ calls[i].n = FirstNq + i - 1
                   /\ calls[i].done
                   /\ pi_estimates[i] = calls[i].ret
                   /\ stdout[i] = [nq |-> FirstNq + i - 1, est |-> calls[i].ret]
             /\ Len(calls) = Len(pi_estimates) + 1
             /\ ~plot.drawn)
    /\ [][pc = "fault" => UNCHANGED vars]_vars

C19_Witness ==
    /\ pc = "fault"
    /\ fault = "JobError"
    /\ n_qubits = 5
    /\ Drawn(5, Len(circ.data))
    /\ Len(pi_estimates) = 3
    /\ Len(jobs) = 4

\* the zero-mode fault of the same claim
C19_WitnessZero ==
    /\ pc = "fault"
    /\ fault = "ZeroDivisionError"
    /\ Drawn(n_qubits, Len(circ.data))

\* the number of qubit counts of the sweep
SweepLen == LastNq - FirstNq + 1

\* every job handed to the backend eventually completes
JobsComplete == Running ~> (pc = "job_monitor" /\ CurJob.status = "done")

\* the dominant outcome of every result is not the all-zero string
NonzeroModes == [](result # <<>> => BinaryValue(PyMax(result)) # 0)

\* C20: if every backend job eventually completes and each dominant outcome is
\* nonzero, the sweep terminates after exactly 11 submissions, and the
\* convergence plot is drawn only after all 11 estimates have been collected,
\* with the reference line for pi having the same 11 points as the
\* qubit-count axis.
C20_SweepTerminates ==
    /\ (JobsComplete /\ NonzeroModes) => <>(pc = "done")
    /\ [](Len(jobs) <= SweepLen)
    /\ [](pc = "done" =>
             /\ Len(jobs) = SweepLen
             /\ SweepLen = 11
             /\ \A i \in 1..Len(jobs) : jobs[i].status = "done"
             /\ plot.drawn)
    /\ [](plot.drawn =>
             /\ Len(pi_estimates) = SweepLen
             /\ plot.est = pi_estimates
             /\ plot.x = [i \in 1..SweepLen |-> FirstNq + i - 1]
             /\ Len(plot.ref) = Len(plot.x)
             /\ \A i \in 1..Len(plot.ref) : plot.ref[i] = "pi")
    /\ [][plot' # plot =>
             /\ ~plot.drawn
             /\ Len(pi_estimates) = SweepLen
             /\ pi_estimates' = pi_estimates]_vars

C20_Witness ==
    /\ pc = "done"
    /\ plot.drawn
    /\ Len(jobs) = 11
    /\ Len(plot.ref) = 11
    /\ Len(plot.est) = 11

============================================================================
